---------------------------- MODULE Spec2Model ----------------------------
(***************************************************************************)
(* The planetary-agent router of src/.github/workflows/main.py: a static   *)
(* agent -> service dictionary and five request handlers declared          *)
(* `async def`, i.e. coroutines that the hosting runtime runs on one event *)
(* loop thread.  Strings are TLA+ strings; \o, Len and SubSeq act on them  *)
(* character by character, as Python's str operations do.                  *)
(***************************************************************************)
EXTENDS Naturals, Sequences, FiniteSets, TLC

(* ------------------------------ bounds --------------------------------- *)

\* number of requests that can be in flight (one per slot)
NumReq == 3
\* an instruction is a concatenation of at most MaxParts fragments
MaxParts == 3

Slots == 1..NumReq

(* ------------------------- configuration ------------------------------- *)

\* planetary_agents, as the module-level dict literal sets it
Registry ==
  [a \in {"Mercury", "Mars", "Saturn", "Jupiter", "Neptune", "Sedna"} |->
     CASE a = "Mercury" -> "Push2Repo"
       [] a = "Mars"    -> "NotebookLM"
       [] a = "Saturn"  -> "NLP2CODE"
       [] a = "Jupiter" -> "CoManDeck"
       [] a = "Neptune" -> "SLAMAR"
       [] a = "Sedna"   -> "HeylloGen"]

(* --------------------------- Python helpers ---------------------------- *)

\* a lookup that takes the first key the agent string starts with
dict_get_startswith(d, key, default) ==
  LET hits == {k \in DOMAIN d : Len(k) <= Len(key) /\ SubSeq(key, 1, Len(k)) = k}
  IN  IF hits # {} THEN d[CHOOSE k \in hits : TRUE] ELSE default

\* dict.get(key, default): the value stored under exactly `key`, else default
dict_get(d, key, default) ==
  IF key \in DOMAIN d THEN d[key] ELSE default

\* the characters str.strip() removes (those that occur in the inputs drawn)
Whitespace == {" ", "\t", "\n"}

RECURSIVE str_lstrip(_)
str_lstrip(s) ==
  IF Len(s) > 0 /\ SubSeq(s, 1, 1) \in Whitespace
  THEN str_lstrip(SubSeq(s, 2, Len(s)))
  ELSE s

RECURSIVE str_rstrip(_)
str_rstrip(s) ==
  IF Len(s) > 0 /\ SubSeq(s, Len(s), Len(s)) \in Whitespace
  THEN str_rstrip(SubSeq(s, 1, Len(s) - 1))
  ELSE s

\* str.strip()
str_strip(s) == str_rstrip(str_lstrip(s))

\* str.replace(old, new, 1): only the leftmost occurrence
str_replace_first(s, old, new) ==
  LET hits == {i \in 1..Len(s) :
                 i + Len(old) - 1 <= Len(s) /\ SubSeq(s, i, i + Len(old) - 1) = old}
      h == CHOOSE i \in hits : \A j \in hits : i <= j
  IN  IF hits = {} THEN s
      ELSE SubSeq(s, 1, h - 1) \o new \o SubSeq(s, h + Len(old), Len(s))

\* the scan of str.replace from position i of s on
RECURSIVE str_replace_from(_, _, _, _)
str_replace_from(s, i, old, new) ==
  IF i > Len(s) THEN ""
  ELSE IF i + Len(old) - 1 <= Len(s) /\ SubSeq(s, i, i + Len(old) - 1) = old
       THEN new \o str_replace_from(s, i + Len(old), old, new)
       ELSE SubSeq(s, i, i) \o str_replace_from(s, i + 1, old, new)

\* str.replace(old, new) for a non-empty old: every non-overlapping
\* occurrence, scanning from the left
str_replace(s, old, new) == str_replace_from(s, 1, old, new)

\* f"[{routed_service}] {instruction.replace('Animate avatar to', '[ACTION]').strip()}"
parsed_text(instruction, routed_service) ==
  "[" \o routed_service \o "] "
      \o str_strip(str_replace(instruction, "Animate avatar to", "[ACTION]"))


(* ----------------------- JSON values and repr() ------------------------ *)

\* JSON values as pydantic hands them to the handler: None, bool, str, dict
JNone == [t |-> "none"]
JBool(b) == [t |-> "bool", b |-> b]
JStr(s) == [t |-> "str", s |-> s]
\* a dict is its items in insertion order, each <<key, value>>
JObj(items) == [t |-> "obj", items |-> items]

\* repr() of a JSON value, as f"{request.data}" renders a dict
RECURSIVE py_repr(_)
RECURSIVE py_repr_items(_)
py_repr_items(items) ==
  IF items = << >> THEN ""
  ELSE "'" \o Head(items)[1] \o "': " \o py_repr(Head(items)[2])
       \o (IF Len(items) > 1 THEN ", " ELSE "")
       \o py_repr_items(Tail(items))

py_repr(v) ==
  CASE v.t = "none" -> "None"
    [] v.t = "bool" -> IF v.b THEN "True" ELSE "False"
    [] v.t = "str"  -> "'" \o v.s \o "'"
    [] v.t = "obj"  -> "{" \o py_repr_items(v.items) \o "}"

(* ------------------------------ requests ------------------------------- *)

\* class NLPRequest
NLPRequest(instruction, agent) ==
  [path |-> "/api/nlp2code", instruction |-> instruction, agent |-> agent]

\* class AvatarRequest
AvatarRequest(action, agent) ==
  [path |-> "/api/avatar", action |-> action, agent |-> agent]

\* class TTSRequest
TTSRequest(text, agent) ==
  [path |-> "/api/tts", text |-> text, agent |-> agent]

\* class WebhookPayload
WebhookPayload(event, data, agent) ==
  [path |-> "/api/webhook", event |-> event, data |-> data, agent |-> agent]

\* GET /api/agents carries no body
AgentsRequest == [path |-> "/api/agents"]

NoRequest == [path |-> "none"]

(* ------------------------------ responses ------------------------------ *)

\* a handler's returned dict (sent by the framework with status 200) or its
\* JSONResponse(content=..., status_code=...)
Response(status_code, content) ==
  [kind |-> "response", status_code |-> status_code, content |-> content]

\* the handler ended by an exception it does not catch: it returned nothing
Raised(exception) == [kind |-> "raised", exception |-> exception]

NoResponse == [kind |-> "none"]

(* ------------------------------- inputs -------------------------------- *)

Fragments ==
  {"Animate avatar to", "Animate avatar t", "o", " ", "\t", " dance", "do X"}

RECURSIVE Concat(_)
Concat(parts) ==
  IF parts = << >> THEN "" ELSE Head(parts) \o Concat(Tail(parts))

\* every concatenation of at most MaxParts fragments
Instructions ==
  {Concat(parts) : parts \in UNION {[1..n -> Fragments] : n \in 0..MaxParts}}

\* the six registered agents, and strings that are no key of the registry
AgentStrings ==
  DOMAIN Registry \cup {"Pluto", "", "mars", "MARS", "Mars ", "Sed"}

DataValues ==
  { JObj(<< >>),
    JObj(<< <<"k", JStr("v")>> >>),
    JObj(<< <<"k", JNone>> >>),
    JObj(<< <<"a", JObj(<< <<"b", JBool(TRUE)>> >>)>> >>),
    JObj(<< <<"a", JStr("")>>, <<"b", JObj(<< >>)>> >>) }

\* the requests one client may send when the handlers are exercised one at
\* a time
SingleRequests ==
  {NLPRequest(i, a) : i \in Instructions, a \in {"Mars", "Pluto"}}
    \cup {NLPRequest("do X", a) : a \in AgentStrings}
    \cup {AvatarRequest(x, a) : x \in {"wave", ""}, a \in AgentStrings}
    \cup {TTSRequest(x, a) : x \in {"hello", ""}, a \in AgentStrings}
    \cup {WebhookPayload(e, d, a) :
            e \in {"deploy", ""}, d \in DataValues, a \in AgentStrings}
    \cup {AgentsRequest}

\* the requests concurrent clients may send
Requests ==
  {NLPRequest("Animate avatar to dance", a) : a \in {"Mars", "Pluto"}}
    \cup {AvatarRequest("wave", a) : a \in {"Mars", "Pluto"}}
    \cup {TTSRequest("hello", a) : a \in {"Mars", "Pluto"}}
    \cup {WebhookPayload("deploy", d, a) :
            d \in {JObj(<< >>), JObj(<< <<"a", JObj(<< <<"b", JBool(TRUE)>> >>)>> >>)},
            a \in {"Mars", "Pluto"}}
    \cup {AgentsRequest}

\* what requests.post(...) can come back with: a response carrying a status
\* code, or an exception (connection refused, DNS failure, ...)
ProviderOutcomes ==
  {[state |-> "answered", status_code |-> c] : c \in {200, 401, 500}}
    \cup {[state |-> "failed"]}

(* ------------------------------- state --------------------------------- *)

VARIABLES
  planetary_agents,  \* the module-level dict
  req,               \* req[r]: the r-th request sent, NoRequest before that
  pc,                \* pc[r]: where the handling of request r stands
  resp,              \* resp[r]: what the handler of request r returned
  running,           \* the request whose coroutine holds the event loop
                     \* thread, 0 when the loop is idle
  stdout,            \* the lines print() has written, in order; `by` records
                     \* the request whose handler wrote the line
  calls,             \* calls[r]: requests.post invocations made for request r
  post,              \* post[r]: state of the outbound call of request r
  sink               \* health of the process's stdout

vars == <<planetary_agents, req, pc, resp, running, stdout, calls, post, sink>>

Init ==
  /\ planetary_agents = Registry
  /\ req = [r \in Slots |-> NoRequest]
  /\ pc = [r \in Slots |-> "idle"]
  /\ resp = [r \in Slots |-> NoResponse]
  /\ running = 0
  /\ stdout = << >>
  /\ calls = [r \in Slots |-> 0]
  /\ post = [r \in Slots |-> [state |-> "none"]]
  /\ sink = "ok"

(* ------------------------ the hosting runtime -------------------------- *)

\* handlers run on a pool of threads: one is entered whatever the others do
LoopFree_threadpool == TRUE

\* Every handler is declared `async def` and contains no await, so from its
\* first statement to its return its coroutine holds the event loop thread:
\* a handler is entered only while no other coroutine holds the loop.
LoopFree == running = 0

\* a client sends request q; requests are numbered in the order sent
client_sends(r, q) ==
  /\ pc[r] = "idle"
  /\ \A p \in Slots : p < r => pc[p] # "idle"
  /\ req' = [req EXCEPT ![r] = q]
  /\ pc' = [pc EXCEPT ![r] = "ready"]
  /\ UNCHANGED <<planetary_agents, resp, running, stdout, calls, post, sink>>

\* stdout stops accepting writes: its reader is gone (print raises) or the
\* pipe is full and is not drained (print does not return)
sink_fault ==
  /\ sink = "ok"
  /\ sink' \in {"broken", "stalled"}
  /\ UNCHANGED <<planetary_agents, req, pc, resp, running, stdout, calls, post>>

(* ------------------------------ handlers ------------------------------- *)

\* parse_instruction resolving with planetary_agents.setdefault(agent, "CygNus")
parse_instruction_setdefault(r) ==
  /\ pc[r] = "ready"
  /\ req[r].path = "/api/nlp2code"
  /\ LoopFree
  /\ LET instruction == req[r].instruction
         agent == req[r].agent
         routed_service == dict_get(planetary_agents, agent, "CygNus")
         parsed == parsed_text(instruction, routed_service)
     IN  /\ resp' = [resp EXCEPT ![r] =
                       Response(200, [parsed |-> parsed, agent |-> agent,
                                      service |-> routed_service])]
         /\ planetary_agents' =
              [k \in DOMAIN planetary_agents \cup {agent} |->
                 dict_get(planetary_agents, k, "CygNus")]
  /\ pc' = [pc EXCEPT ![r] = "done"]
  /\ UNCHANGED <<req, running, stdout, calls, post, sink>>

\* parse_instruction with a print of the parsed text left in
parse_instruction_printing(r) ==
  /\ pc[r] = "ready"
  /\ req[r].path = "/api/nlp2code"
  /\ LoopFree
  /\ LET instruction == req[r].instruction
         agent == req[r].agent
         routed_service == dict_get(planetary_agents, agent, "CygNus")
         parsed == parsed_text(instruction, routed_service)
     IN  /\ resp' = [resp EXCEPT ![r] =
                       Response(200, [parsed |-> parsed, agent |-> agent,
                                      service |-> routed_service])]
         /\ stdout' = Append(stdout, [by |-> r, text |-> parsed])
  /\ pc' = [pc EXCEPT ![r] = "done"]
  /\ UNCHANGED <<planetary_agents, req, running, calls, post, sink>>

\* POST /api/nlp2code
parse_instruction(r) ==
  /\ pc[r] = "ready"
  /\ req[r].path = "/api/nlp2code"
  /\ LoopFree
  /\ LET instruction == req[r].instruction
         agent == req[r].agent
         routed_service == dict_get(planetary_agents, agent, "CygNus")
         parsed == parsed_text(instruction, routed_service)
     IN  resp' = [resp EXCEPT ![r] =
                    Response(200, [parsed |-> parsed, agent |-> agent,
                                   service |-> routed_service])]
  /\ pc' = [pc EXCEPT ![r] = "done"]
  /\ UNCHANGED <<planetary_agents, req, running, stdout, calls, post, sink>>

\* what control_avatar returns
avatar_result(agent, routed_service) ==
  Response(200, [status |-> "Avatar action routed", agent |-> agent,
                 service |-> routed_service])

\* POST /api/avatar.  print() writes the line, raises when stdout is broken,
\* and does not return while stdout is stalled.
control_avatar(r) ==
  /\ pc[r] = "ready"
  /\ req[r].path = "/api/avatar"
  /\ LoopFree
  /\ LET agent == req[r].agent
         action == req[r].action
         routed_service == dict_get(planetary_agents, agent, "CygNus")
         line == "Triggering avatar action via " \o routed_service
                   \o ": " \o action
     IN  CASE sink = "ok" ->
                /\ stdout' = Append(stdout, [by |-> r, text |-> line])
                /\ resp' = [resp EXCEPT ![r] = avatar_result(agent, routed_service)]
                /\ pc' = [pc EXCEPT ![r] = "done"]
                /\ running' = running
           [] sink = "broken" ->
                /\ resp' = [resp EXCEPT ![r] = Raised("OSError")]
                /\ pc' = [pc EXCEPT ![r] = "done"]
                /\ UNCHANGED <<stdout, running>>
           [] sink = "stalled" ->
                /\ pc' = [pc EXCEPT ![r] = "in_print"]
                /\ running' = r
                /\ UNCHANGED <<stdout, resp>>
  /\ UNCHANGED <<planetary_agents, req, calls, post, sink>>

\* POST /api/tts, up to the point where requests.post has sent the request
\* and waits for the provider on the event loop thread
generate_tts(r) ==
  /\ pc[r] = "ready"
  /\ req[r].path = "/api/tts"
  /\ LoopFree
  /\ calls' = [calls EXCEPT ![r] = @ + 1]
  /\ post' = [post EXCEPT ![r] = [state |-> "pending"]]
  /\ pc' = [pc EXCEPT ![r] = "in_post"]
  /\ running' = r
  /\ UNCHANGED <<planetary_agents, req, resp, stdout, sink>>

\* what generate_tts does with the outcome of requests.post
tts_result(outcome, agent, routed_service) ==
  IF outcome.state = "failed"
  THEN Raised("RequestException")
  ELSE IF outcome.status_code = 200
       THEN Response(200, [status |-> "TTS generated", agent |-> agent,
                           service |-> routed_service])
       ELSE Response(500, [error |-> "TTS failed", agent |-> agent,
                           service |-> routed_service])

\* generate_tts_return calling the provider once more after a first answer
\* other than 200
generate_tts_return_retry(r) ==
  /\ pc[r] = "in_post"
  /\ running = r
  /\ \E outcome \in ProviderOutcomes :
       IF outcome.state = "answered" /\ outcome.status_code # 200 /\ calls[r] < 2
       THEN /\ calls' = [calls EXCEPT ![r] = @ + 1]
            /\ UNCHANGED <<post, resp, pc, running>>
       ELSE /\ post' = [post EXCEPT ![r] = outcome]
            /\ LET agent == req[r].agent
                   routed_service == dict_get(planetary_agents, agent, "CygNus")
               IN  resp' = [resp EXCEPT ![r] =
                              tts_result(outcome, agent, routed_service)]
            /\ pc' = [pc EXCEPT ![r] = "done"]
            /\ running' = 0
            /\ calls' = calls
  /\ UNCHANGED <<planetary_agents, req, stdout, sink>>

\* POST /api/tts, from the return of requests.post to the handler's return
generate_tts_return(r) ==
  /\ pc[r] = "in_post"
  /\ running = r
  /\ \E outcome \in ProviderOutcomes :
       /\ post' = [post EXCEPT ![r] = outcome]
       /\ LET agent == req[r].agent
              routed_service == dict_get(planetary_agents, agent, "CygNus")
          IN  resp' = [resp EXCEPT ![r] = tts_result(outcome, agent, routed_service)]
  /\ pc' = [pc EXCEPT ![r] = "done"]
  /\ running' = 0
  /\ UNCHANGED <<planetary_agents, req, stdout, calls, sink>>

\* webhook_handler refusing a payload whose data is the empty object
webhook_result_requires_data(request, routed_service) ==
  IF request.data.items = << >>
  THEN Response(422, [error |-> "empty data", agent |-> request.agent,
                      service |-> routed_service])
  ELSE Response(200, [status |-> "Webhook received", agent |-> request.agent,
                      service |-> routed_service])

\* what webhook_handler returns
webhook_result(request, routed_service) ==
  Response(200, [status |-> "Webhook received", agent |-> request.agent,
                 service |-> routed_service])

\* POST /api/webhook, through its first print.  The first character of the
\* line is U+1F4E1, written here by its code point.
webhook_handler(r) ==
  /\ pc[r] = "ready"
  /\ req[r].path = "/api/webhook"
  /\ LoopFree
  /\ LET agent == req[r].agent
         routed_service == dict_get(planetary_agents, agent, "CygNus")
         event == req[r].event
         line == "(U+1F4E1) Webhook from " \o routed_service \o " ["
                   \o agent \o "]: " \o event
     IN  CASE sink = "ok" ->
                /\ stdout' = Append(stdout, [by |-> r, text |-> line])
                /\ pc' = [pc EXCEPT ![r] = "printed_event"]
                /\ running' = r
                /\ resp' = resp
           [] sink = "broken" ->
                /\ resp' = [resp EXCEPT ![r] = Raised("OSError")]
                /\ pc' = [pc EXCEPT ![r] = "done"]
                /\ UNCHANGED <<stdout, running>>
           [] sink = "stalled" ->
                /\ pc' = [pc EXCEPT ![r] = "in_print"]
                /\ running' = r
                /\ UNCHANGED <<stdout, resp>>
  /\ UNCHANGED <<planetary_agents, req, calls, post, sink>>

\* POST /api/webhook, from its second print to its return
webhook_handler_data(r) ==
  /\ pc[r] = "printed_event"
  /\ LET agent == req[r].agent
         routed_service == dict_get(planetary_agents, agent, "CygNus")
         line == "Data: " \o py_repr(req[r].data)
     IN  CASE sink = "ok" ->
                /\ stdout' = Append(stdout, [by |-> r, text |-> line])
                /\ resp' = [resp EXCEPT ![r] = webhook_result(req[r], routed_service)]
                /\ pc' = [pc EXCEPT ![r] = "done"]
                /\ running' = 0
           [] sink = "broken" ->
                /\ resp' = [resp EXCEPT ![r] = Raised("OSError")]
                /\ pc' = [pc EXCEPT ![r] = "done"]
                /\ running' = 0
                /\ stdout' = stdout
           [] sink = "stalled" ->
                /\ pc' = [pc EXCEPT ![r] = "in_print"]
                /\ UNCHANGED <<stdout, resp, running>>
  /\ UNCHANGED <<planetary_agents, req, calls, post, sink>>

\* GET /api/agents
list_agents(r) ==
  /\ pc[r] = "ready"
  /\ req[r].path = "/api/agents"
  /\ LoopFree
  /\ resp' = [resp EXCEPT ![r] =
                Response(200, [planetary_agents |-> planetary_agents])]
  /\ pc' = [pc EXCEPT ![r] = "done"]
  /\ UNCHANGED <<planetary_agents, req, running, stdout, calls, post, sink>>

(* --------------------------- specifications ---------------------------- *)

\* concurrent clients, stdout healthy
Next ==
  \/ \E r \in Slots, q \in Requests : client_sends(r, q)
  \/ \E r \in Slots : parse_instruction(r)
  \/ \E r \in Slots : control_avatar(r)
  \/ \E r \in Slots : generate_tts(r)
  \/ \E r \in Slots : generate_tts_return(r)
  \/ \E r \in Slots : webhook_handler(r)
  \/ \E r \in Slots : webhook_handler_data(r)
  \/ \E r \in Slots : list_agents(r)

Spec == Init /\ [][Next]_vars

\* one request at a time, over the wide input sets
NextSingle ==
  \/ \E q \in SingleRequests : client_sends(1, q)
  \/ parse_instruction(1)
  \/ control_avatar(1)
  \/ generate_tts(1)
  \/ generate_tts_return(1)
  \/ webhook_handler(1)
  \/ webhook_handler_data(1)
  \/ list_agents(1)

SpecSingle == Init /\ [][NextSingle]_vars

\* concurrent clients, and stdout may break or stall at any moment
NextDiag ==
  \/ Next
  \/ sink_fault

SpecDiag == Init /\ [][NextDiag]_vars

(* ------------------------------ properties ----------------------------- *)

\* the service the specification promises for agent a
ExpectedService(a) ==
  IF a \in DOMAIN Registry THEN Registry[a] ELSE "CygNus"

PostPaths == {"/api/nlp2code", "/api/avatar", "/api/tts", "/api/webhook"}

\* entering the handler of request r
Handle(r) ==
  \/ parse_instruction(r)
  \/ control_avatar(r)
  \/ generate_tts(r)
  \/ webhook_handler(r)
  \/ list_agents(r)

\* C1: every response of a POST handler carries, for a registered agent,
\* exactly the configured service, and for every other agent string
\* "CygNus", whichever of the four handlers resolved it; no handler is ended
\* by the lookup (only the TTS handler can end by an exception).
ResolveServiceExactMatch ==
  \A r \in Slots :
    /\ (resp[r].kind = "response" /\ req[r].path \in PostPaths) =>
         LET a == req[r].agent
         IN  /\ a \in DOMAIN Registry => resp[r].content.service = Registry[a]
             /\ a \notin DOMAIN Registry => resp[r].content.service = "CygNus"
    /\ resp[r].kind = "raised" => req[r].path = "/api/tts"

\* C1 witness: the webhook handler answered an agent that differs from a
\* key only by a trailing space with the fallback
ResolveServiceWitness ==
  /\ req[1].path = "/api/webhook"
  /\ req[1].agent = "Mars "
  /\ resp[1].kind = "response"
  /\ resp[1].content.service = "CygNus"

\* the instruction without its leading and trailing whitespace
ClaimTrim(s) ==
  LET inked == {i \in 1..Len(s) : SubSeq(s, i, i) \notin Whitespace}
  IN  IF inked = {} THEN ""
      ELSE SubSeq(s, CHOOSE i \in inked : \A j \in inked : i <= j,
                     CHOOSE i \in inked : \A j \in inked : i >= j)

\* s with every occurrence of "Animate avatar to" replaced by "[ACTION]"
RECURSIVE ClaimReplaceAll(_)
ClaimReplaceAll(s) ==
  IF Len(s) < 17 THEN s
  ELSE IF SubSeq(s, 1, 17) = "Animate avatar to"
       THEN "[ACTION]" \o ClaimReplaceAll(SubSeq(s, 18, Len(s)))
       ELSE SubSeq(s, 1, 1) \o ClaimReplaceAll(SubSeq(s, 2, Len(s)))

\* C2: parsed is "[<service>] " followed by the trimmed instruction with
\* every occurrence of "Animate avatar to" replaced by "[ACTION]"; agent is
\* echoed and service is the resolved one; the two worked examples hold.
ParsedIsPrefixTrimReplaceAll ==
  \A r \in Slots :
    (resp[r].kind = "response" /\ req[r].path = "/api/nlp2code") =>
      LET a == req[r].agent
          i == req[r].instruction
          c == resp[r].content
      IN  /\ c.parsed = "[" \o ExpectedService(a) \o "] "
                          \o ClaimReplaceAll(ClaimTrim(i))
          /\ c.agent = a
          /\ c.service = ExpectedService(a)
          /\ (i = "Animate avatar to dance" /\ a = "Mars")
               => c.parsed = "[NotebookLM] [ACTION] dance"
          /\ (i = "do X" /\ a = "Pluto") => c.parsed = "[CygNus] do X"

\* C2 witness: an instruction with surrounding whitespace and two
\* occurrences of the substring has been parsed
ParsedWitness ==
  /\ req[1].path = "/api/nlp2code"
  /\ req[1].instruction = " Animate avatar toAnimate avatar to"
  /\ resp[1].kind = "response"
  /\ resp[1].content.parsed = "[CygNus] [ACTION][ACTION]"

\* C3: a finished TTS request has status 200 and the success payload when
\* the provider answered 200, and status 500 and the error payload with
\* agent and service when the provider answered anything else or the call
\* failed in transport.
TtsStatusFollowsProvider ==
  \A r \in Slots :
    (pc[r] = "done" /\ req[r].path = "/api/tts") =>
      LET a == req[r].agent
          ok == post[r].state = "answered" /\ post[r].status_code = 200
      IN  /\ ok => resp[r] = Response(200, [status |-> "TTS generated",
                                            agent |-> a,
                                            service |-> ExpectedService(a)])
          /\ ~ok => resp[r] = Response(500, [error |-> "TTS failed",
                                             agent |-> a,
                                             service |-> ExpectedService(a)])

\* C4: while a TTS request waits for the provider, every other request that
\* has been sent and not yet handled can be handled.
OthersRunWhileTtsWaits ==
  \A r, q \in Slots :
    (pc[r] = "in_post" /\ q # r /\ pc[q] = "ready") => ENABLED Handle(q)

\* C5: the registry always holds exactly the six configured pairs, and
\* every answer of listAgents is exactly that mapping.
RegistryNeverMutated ==
  /\ planetary_agents = Registry
  /\ DOMAIN planetary_agents =
       {"Mercury", "Mars", "Saturn", "Jupiter", "Neptune", "Sedna"}
  /\ \A r \in Slots :
       (pc[r] = "done" /\ req[r].path = "/api/agents") =>
         resp[r] = Response(200, [planetary_agents |-> Registry])

\* C5 witness: listAgents answered after a handler resolved an unregistered
\* agent
RegistryWitness ==
  \E r, q \in Slots :
    /\ q < r
    /\ pc[q] = "done" /\ req[q].path \in PostPaths /\ req[q].agent = "Pluto"
    /\ pc[r] = "done" /\ req[r].path = "/api/agents"

\* C6: a request to nlp2code, avatar, webhook or agents that can be handled
\* is handled to status 200, never to an error; the webhook answer is the
\* fixed acknowledgment with the request's agent and the resolved service,
\* whatever the data.
OtherHandlersTotal ==
  \A r \in Slots :
    req[r].path \in {"/api/nlp2code", "/api/avatar", "/api/webhook", "/api/agents"} =>
      /\ (pc[r] = "ready" /\ running = 0) => ENABLED Handle(r)
      /\ pc[r] = "printed_event" => ENABLED webhook_handler_data(r)
      /\ pc[r] = "done" => resp[r].kind = "response" /\ resp[r].status_code = 200
      /\ (pc[r] = "done" /\ req[r].path = "/api/webhook") =>
           resp[r].content = [status |-> "Webhook received",
                              agent |-> req[r].agent,
                              service |-> ExpectedService(req[r].agent)]

\* C6 witness: a webhook with the empty object as data, and an unregistered
\* agent, was acknowledged
OtherHandlersWitness ==
  /\ req[1].path = "/api/webhook"
  /\ req[1].data = JObj(<< >>)
  /\ req[1].agent = ""
  /\ pc[1] = "done"
  /\ resp[1].status_code = 200

\* C7: whatever happens to stdout, an avatar or webhook request is never
\* stuck in an emission and finishes with its fixed acknowledgment.
DiagnosticsBestEffort ==
  \A r \in Slots :
    req[r].path \in {"/api/avatar", "/api/webhook"} =>
      /\ pc[r] # "in_print"
      /\ pc[r] = "done" =>
           /\ resp[r].kind = "response"
           /\ resp[r].status_code = 200
           /\ resp[r].content.agent = req[r].agent
           /\ resp[r].content.service = ExpectedService(req[r].agent)

\* C8: a TTS request has made exactly one outbound call from the moment it
\* waits for the provider, whatever the provider answers; it has a response
\* only once that call has completed; no other request makes a call.
OneOutboundCallPerTts ==
  \A r \in Slots :
    /\ req[r].path # "/api/tts" => calls[r] = 0 /\ post[r].state = "none"
    /\ (req[r].path = "/api/tts" /\ pc[r] \in {"in_post", "done"}) => calls[r] = 1
    /\ (req[r].path = "/api/tts" /\ pc[r] \notin {"in_post", "done"}) => calls[r] = 0
    /\ (req[r].path = "/api/tts" /\ resp[r] # NoResponse) =>
         post[r].state \in {"answered", "failed"}
    /\ pc[r] = "in_post" => resp[r] = NoResponse /\ post[r].state = "pending"

\* C8 witness: a TTS request whose provider answered 500 is finished after
\* one call, beside a finished webhook request
OneOutboundCallWitness ==
  \E r, q \in Slots :
    /\ req[r].path = "/api/tts" /\ pc[r] = "done"
    /\ post[r].state = "answered" /\ post[r].status_code = 500
    /\ calls[r] = 1
    /\ req[q].path = "/api/webhook" /\ pc[q] = "done"

\* the positions of the lines request r wrote
LinesBy(r) == {i \in 1..Len(stdout) : stdout[i].by = r}

Finished(path) == {r \in Slots : req[r].path = path /\ pc[r] = "done"}

\* C9: a finished avatar request wrote exactly one line, naming service and
\* action; a finished webhook request wrote exactly two, the event line
\* before the data line; no other request wrote any; the number of lines is
\* the number of avatar calls plus twice the number of webhook calls (plus
\* the event line of a webhook call still between its two emissions).
DiagnosticCounts ==
  /\ \A r \in Slots :
       LET n == Cardinality(LinesBy(r))
       IN  /\ req[r].path \notin {"/api/avatar", "/api/webhook"} => n = 0
           /\ (req[r].path = "/api/avatar" /\ pc[r] = "done") =>
                /\ n = 1
                /\ \A i \in LinesBy(r) :
                     stdout[i].text = "Triggering avatar action via "
                        \o ExpectedService(req[r].agent) \o ": " \o req[r].action
           /\ (req[r].path = "/api/webhook" /\ pc[r] = "done") =>
                /\ n = 2
                /\ \E i, j \in LinesBy(r) :
                     /\ i < j
                     /\ stdout[i].text = "(U+1F4E1) Webhook from "
                          \o ExpectedService(req[r].agent) \o " ["
                          \o req[r].agent \o "]: " \o req[r].event
                     /\ SubSeq(stdout[j].text, 1, 6) = "Data: "
  /\ Len(stdout) = Cardinality(Finished("/api/avatar"))
                     + 2 * Cardinality(Finished("/api/webhook"))
                     + Cardinality({r \in Slots : pc[r] = "printed_event"})

\* C9 witness: an avatar, a webhook and a TTS request are finished and three
\* lines were written
DiagnosticCountsWitness ==
  /\ Finished("/api/avatar") # {}
  /\ Finished("/api/webhook") # {}
  /\ Finished("/api/tts") # {}
  /\ Len(stdout) = 3

\* C10: the two lines of one webhook request are adjacent, and while a
\* webhook request is between its two emissions its event line is the last
\* line written.
WebhookLinesAdjacent ==
  /\ \A i, j \in 1..Len(stdout) :
       (i < j /\ stdout[i].by = stdout[j].by) => j = i + 1
  /\ \A r \in Slots :
       pc[r] = "printed_event" => LinesBy(r) = {Len(stdout)}

\* C10 witness: a webhook request is between its two emissions while an
\* avatar request and another webhook request are waiting to be handled
WebhookLinesWitness ==
  \E r, q, p \in Slots :
    /\ pc[r] = "printed_event"
    /\ pc[q] = "ready" /\ req[q].path = "/api/avatar"
    /\ pc[p] = "ready" /\ req[p].path = "/api/webhook"

=============================================================================
